---- MODULE Spec2Model ----
(***************************************************************************)
(* A model of the whoami test server (app.go, buffer_pool.go): the content *)
(* generator writeContent, the pooled buffers of the /data route, the      *)
(* health state of the /health route behind its RWMutex, and the request   *)
(* counters of the metrics middleware.                                     *)
(*                                                                         *)
(* Every request is served on its own goroutine.  A caller issues its      *)
(* requests one after the other; the callers run concurrently.  One action *)
(* is one atomic step of a goroutine: an atomic counter operation, a lock   *)
(* operation, a pool operation, or a run of code that touches only state   *)
(* the goroutine owns.                                                     *)
(***************************************************************************)
EXTENDS Integers, Sequences, FiniteSets, TLC

\* ------------------------------------------------------------------ bounds
\* Largest length handed to writeContent in SpecFill.
MaxLen == 30
\* SpecMetrics: concurrent callers (M) and requests sent by each (K).
MetricsCallers == 2
MaxIter == 2
\* SpecHealth: callers, each sending one request to /health at any time.
HealthCallers == 2
\* SpecWrapped: callers, each sending one request to /health at any time.
WrappedCallers == 2
\* SpecLive: callers, each sending one request to /health at any time.
LiveCallers == 2
\* SpecPool: callers, each sending one request to /data at any time.
DataCallers == 2
\* Spec: callers of the whole server, each sending one request to any route
\* and then further requests to /bench, MaxIter in all.
ServerCallers == 1
\* Largest size parameter of a /data request in SpecPool.
MaxSize == 2

VARIABLES
    metricsEnabled,             \* flag -metrics (app.go:41)
    pc,                         \* per caller: where its current request stands
    route,                      \* per caller: the route of its current request
    req,                        \* per caller: the request (method, body, query)
    iter,                       \* per caller: requests issued so far
    panicked,                   \* per caller: the handler is unwinding a panic
    status,                     \* per caller: status line written (0: none yet)
    totalRequestCount,          \* buffer_pool.go:47
    concurrentRequestCount,     \* buffer_pool.go:48
    maxConcurrentRequestCount,  \* buffer_pool.go:49
    count,                      \* per caller: local `count` of onHandleRequestStart
    peak,                       \* history: highest value concurrentRequestCount took
    currentHealthState,         \* app.go:292 (its StatusCode)
    mutexHealthState,           \* app.go:293
    statusCode,                 \* per caller: local `statusCode` of healthHandler
    seen,                       \* history, per caller: the code its read passed to WriteHeader (-1: none)
    lastWrite,                  \* history: the body of the latest completed write
    touched,                    \* history, per caller: the request locked or wrote the state
    content,                    \* per caller: the *PooledBuffer it holds (0: none)
    buffers,                    \* heap: the live PooledBuffers, by address
    bufferPool,                 \* buffer_pool.go:14: the addresses the pool holds
    out,                        \* per caller: the bytes its response carried
    recycled,                   \* history, per caller: its buffer came from the pool
    released,                   \* history, per caller: Close calls of its request
    fillLength,                 \* writeContent's `length`
    fillW,                      \* writeContent's `w`
    fillW0,                     \* history: `w` when writeContent was called
    fillPc,                     \* "call" before, "done" after writeContent
    sizeReq,                    \* the request whose size dataHandler computes
    size,                       \* dataHandler's `size` at line 144
    sizePc                      \* "call" before, "done" after lines 116-137

requestVars == <<pc, route, req, iter, panicked, status>>
metricsVars == <<totalRequestCount, concurrentRequestCount,
                 maxConcurrentRequestCount, count, peak>>
healthVars == <<currentHealthState, mutexHealthState, statusCode, seen, lastWrite,
                touched>>
dataVars == <<content, buffers, bufferPool, out, recycled, released>>
fillVars == <<fillLength, fillW, fillW0, fillPc>>
sizeVars == <<sizeReq, size, sizePc>>
vars == <<metricsEnabled, requestVars, metricsVars, healthVars, dataVars, fillVars,
          sizeVars>>

\* The callers of the running specification.
Requests == DOMAIN pc

\* ------------------------------------------------------------ bytes.Buffer
\* A bytes.Buffer: arr is the backing array as far as it was ever written,
\* len is len(buf), off the read offset.  Reset keeps the backing array.
NewBuffer == [arr |-> <<>>, len |-> 0, off |-> 0]

\* Buffer.Len(): the unread bytes.
BufLen(b) == b.len - b.off

\* Buffer.Bytes(): the unread part.
Bytes(b) == SubSeq(b.arr, b.off + 1, b.len)

\* Buffer.Reset(): buf = buf[:0], off = 0.
ResetOffsetOnly(b) == [b EXCEPT !.off = 0]
Reset(b) == [b EXCEPT !.len = 0, !.off = 0]

\* Buffer.WriteByte(c): buf = append(buf, c).
WriteByte(b, c) ==
    [b EXCEPT !.arr = IF b.len < Len(b.arr)
                      THEN [b.arr EXCEPT ![b.len + 1] = c]
                      ELSE SubSeq(b.arr, 1, b.len) \o <<c>>,
              !.len = b.len + 1]

\* Buffer.WriteRune(r): one byte below utf8.RuneSelf, else the UTF-8 encoding
\* (two bytes below 0x800; writeContent only writes '|').
WriteRune(b, r) ==
    IF r < 128 THEN WriteByte(b, r)
    ELSE WriteByte(WriteByte(b, 192 + (r \div 64)), 128 + (r % 64))

\* ------------------------------------------------------------ writeContent
\* const CHARSET = "-ABCDEFGHIJKLMNOPQRSTUVWXYZ", as bytes.
CHARSET == <<45>> \o [k \in 1..26 |-> 64 + k]

\* CHARSET[i%len(CHARSET)] (Go indexes from 0).
FillByteShifted(i) == CHARSET[((i - 1) % Len(CHARSET)) + 1]
FillByte(i) == CHARSET[(i % Len(CHARSET)) + 1]

\* The loop condition i < (int(length) - 1).  The lengths of the model are
\* below 2^31, where int(length) = length whatever the width of int.
LoopCondInclusive(i, len) == i < len
LoopCond(i, len) == i < len - 1

\* for i := 1; i < (int(length) - 1); i++ { w.WriteByte(CHARSET[i%len(CHARSET)]) }
RECURSIVE WriteLoop(_, _, _)
WriteLoop(w, i, len) ==
    IF LoopCond(i, len) THEN WriteLoop(WriteByte(w, FillByte(i)), i + 1, len) ELSE w

writeContent(w, len) ==
    IF len <= 0 THEN w
    ELSE LET w1 == WriteRune(w, 124)
             w2 == WriteLoop(w1, 1, len)
         IN  IF len > 1 THEN WriteRune(w2, 124) ELSE w2

\* func fillContent / the call writeContent(w, length) on its own: the
\* targets are a new buffer, a recycled one (reset, its old bytes still in
\* the backing array) and one that already holds unread bytes.
FillTargets ==
    { NewBuffer,
      [arr |-> <<124, 65, 66, 124>>, len |-> 0, off |-> 0],
      [arr |-> <<88, 89, 90>>, len |-> 3, off |-> 1] }

FillContent ==
    /\ fillPc = "call"
    /\ fillW' = writeContent(fillW, fillLength)
    /\ fillPc' = "done"
    /\ UNCHANGED <<fillLength, fillW0>>
    /\ UNCHANGED <<metricsEnabled, requestVars, metricsVars, healthVars, dataVars,
                   sizeVars>>

\* -------------------------------------------------------------------- int64
\* An int64 is its two's complement: the set of the bit positions that are 1,
\* out of 0 .. Width-1; bit Width-1 is the sign.
Width == 64

IsNeg(x) == (Width - 1) \in x

\* The int64 of an integer n, -2^31 < n < 2^31.
Int64(n) ==
    IF n >= 0
    THEN {i \in 0..30 : (n \div (2 ^ i)) % 2 = 1}
    ELSE (0..(Width - 1)) \ {i \in 0..30 : ((-n - 1) \div (2 ^ i)) % 2 = 1}

RECURSIVE SumBits(_)
SumBits(S) ==
    IF S = {} THEN 0
    ELSE LET i == CHOOSE j \in S : TRUE IN (2 ^ i) + SumBits(S \ {i})

\* The integer an int64 stands for, when it lies between -2^31 and 2^31.
ToInt(x) == IF IsNeg(x) THEN -1 - SumBits((0..(Width - 2)) \ x) ELSE SumBits(x)

\* x * 2^s in int64 arithmetic (size *= KB, ...): the bits move up by s and
\* those pushed beyond bit 63 are lost.
Shl(x, s) == {i + s : i \in x} \cap (0..(Width - 1))

\* ------------------------------------------------------- requests, routing
\* A request: the method and body /health reads, the query /data reads.  The
\* size parameter is a decimal int64 (kind "int", val its bits) or anything ParseInt rejects
\* (kind "bad": missing, not a number, out of range); attachment is what
\* ParseBool makes of the parameter, false when it rejects it (app.go:139-142).
NoRequest == [method |-> "GET", body |-> [kind |-> "empty", val |-> 0],
              size |-> [kind |-> "bad", val |-> {}], unit |-> "", attachment |-> FALSE]

\* func wrapHandler: the function registered for a route is the handler itself
\* or metricsMiddleware.ServeHTTP around it; the pc a request enters at.
wrapHandlerAlways == "mwStart"
wrapHandler == IF ~metricsEnabled THEN "handler" ELSE "mwStart"

\* Where a request goes when its handler returns or panics: into the deferred
\* onHandleRequestFinish of ServeHTTP when the handler is wrapped, else back
\* into the server, which sends the response.
afterHandler == IF ~metricsEnabled THEN "respond" ELSE "mwFinish"

\* The heap after garbage collection: the buffers the pool holds or a
\* request refers to.
Collect(heap, pool, refs) ==
    [b \in {a \in DOMAIN heap : a \in pool \/ \E r \in DOMAIN refs : refs[r] = a}
        |-> heap[b]]

\* The server accepts caller r's next request and starts serving it.
Begin(r, rt, rq, k) ==
    /\ pc[r] = "idle"
    /\ iter[r] < k
    /\ iter' = [iter EXCEPT ![r] = @ + 1]
    /\ route' = [route EXCEPT ![r] = rt]
    /\ req' = [req EXCEPT ![r] = rq]
    /\ pc' = [pc EXCEPT ![r] = wrapHandler]
    /\ UNCHANGED <<metricsEnabled, panicked, status, metricsVars, healthVars,
                   dataVars, fillVars, sizeVars>>

\* The served function has returned (or its panic has been recovered by the
\* server, which then drops the connection): the response is on its way and
\* the goroutine's request, locals and response writer are gone.
Respond(r) ==
    /\ pc[r] = "respond"
    /\ pc' = [pc EXCEPT ![r] = "idle"]
    /\ route' = [route EXCEPT ![r] = "none"]
    /\ req' = [req EXCEPT ![r] = NoRequest]
    /\ panicked' = [panicked EXCEPT ![r] = FALSE]
    /\ status' = [status EXCEPT ![r] = 0]
    /\ count' = [count EXCEPT ![r] = 0]
    /\ statusCode' = [statusCode EXCEPT ![r] = 0]
    /\ seen' = [seen EXCEPT ![r] = -1]
    /\ touched' = [touched EXCEPT ![r] = FALSE]
    /\ content' = [content EXCEPT ![r] = 0]
    /\ out' = [out EXCEPT ![r] = <<>>]
    /\ recycled' = [recycled EXCEPT ![r] = FALSE]
    /\ released' = [released EXCEPT ![r] = 0]
    /\ buffers' = Collect(buffers, bufferPool, content')
    /\ UNCHANGED <<metricsEnabled, iter, totalRequestCount, concurrentRequestCount,
                   maxConcurrentRequestCount, peak, currentHealthState,
                   mutexHealthState, lastWrite, bufferPool, fillVars, sizeVars>>

\* ------------------------------------------------------- metricsMiddleware
\* expvarInt.Add(delta): atomic add, returns the new value.
expvarIntAdd(v, delta) == v + delta

\* expvarMaxInt.Update(v): atomically raises the stored maximum to v if v is higher.
expvarMaxIntUpdate(cur, v) == IF v > cur THEN v ELSE cur

\* count := concurrentRequestCount.Add(1)
onHandleRequestStartAdd(r) ==
    /\ pc[r] = "mwStart"
    /\ concurrentRequestCount' = expvarIntAdd(concurrentRequestCount, 1)
    /\ count' = [count EXCEPT ![r] = concurrentRequestCount']
    /\ peak' = IF concurrentRequestCount' > peak THEN concurrentRequestCount' ELSE peak
    /\ pc' = [pc EXCEPT ![r] = "mwTotal"]
    /\ UNCHANGED <<metricsEnabled, route, req, iter, panicked, status,
                   totalRequestCount, maxConcurrentRequestCount, healthVars,
                   dataVars, fillVars, sizeVars>>

\* totalRequestCount.Add(1)
onHandleRequestStartTotalSnapshot(r) ==
    /\ pc[r] = "mwTotal"
    /\ totalRequestCount' = expvarIntAdd(totalRequestCount, count[r])
    /\ pc' = [pc EXCEPT ![r] = "mwUpdate"]
    /\ UNCHANGED <<metricsEnabled, route, req, iter, panicked, status,
                   concurrentRequestCount, maxConcurrentRequestCount, count, peak,
                   healthVars, dataVars, fillVars, sizeVars>>
onHandleRequestStartTotal(r) ==
    /\ pc[r] = "mwTotal"
    /\ totalRequestCount' = expvarIntAdd(totalRequestCount, 1)
    /\ pc' = [pc EXCEPT ![r] = "mwUpdate"]
    /\ UNCHANGED <<metricsEnabled, route, req, iter, panicked, status,
                   concurrentRequestCount, maxConcurrentRequestCount, count, peak,
                   healthVars, dataVars, fillVars, sizeVars>>

\* maxConcurrentRequestCount.Update(count); then m.nextHandler(writer, request)
onHandleRequestStartUpdateReread(r) ==
    /\ pc[r] = "mwUpdate"
    /\ maxConcurrentRequestCount' =
           expvarMaxIntUpdate(maxConcurrentRequestCount, concurrentRequestCount)
    /\ pc' = [pc EXCEPT ![r] = "handler"]
    /\ UNCHANGED <<metricsEnabled, route, req, iter, panicked, status,
                   totalRequestCount, concurrentRequestCount, count, peak,
                   healthVars, dataVars, fillVars, sizeVars>>
onHandleRequestStartUpdateStale(r) ==
    /\ pc[r] = "mwUpdate"
    /\ maxConcurrentRequestCount' = count[r]
    /\ pc' = [pc EXCEPT ![r] = "handler"]
    /\ UNCHANGED <<metricsEnabled, route, req, iter, panicked, status,
                   totalRequestCount, concurrentRequestCount, count, peak,
                   healthVars, dataVars, fillVars, sizeVars>>
onHandleRequestStartUpdate(r) ==
    /\ pc[r] = "mwUpdate"
    /\ maxConcurrentRequestCount' = expvarMaxIntUpdate(maxConcurrentRequestCount, count[r])
    /\ pc' = [pc EXCEPT ![r] = "handler"]
    /\ UNCHANGED <<metricsEnabled, route, req, iter, panicked, status,
                   totalRequestCount, concurrentRequestCount, count, peak,
                   healthVars, dataVars, fillVars, sizeVars>>

\* defer m.onHandleRequestFinish(): concurrentRequestCount.Add(-1), run when
\* the handler has returned or while its panic unwinds.
onHandleRequestFinishTwice(r) ==
    /\ pc[r] = "mwFinish"
    /\ concurrentRequestCount' = expvarIntAdd(concurrentRequestCount, -2)
    /\ pc' = [pc EXCEPT ![r] = "respond"]
    /\ UNCHANGED <<metricsEnabled, route, req, iter, panicked, status,
                   totalRequestCount, maxConcurrentRequestCount, count, peak,
                   healthVars, dataVars, fillVars, sizeVars>>
onHandleRequestFinish(r) ==
    /\ pc[r] = "mwFinish"
    /\ concurrentRequestCount' = expvarIntAdd(concurrentRequestCount, -1)
    /\ pc' = [pc EXCEPT ![r] = "respond"]
    /\ UNCHANGED <<metricsEnabled, route, req, iter, panicked, status,
                   totalRequestCount, maxConcurrentRequestCount, count, peak,
                   healthVars, dataVars, fillVars, sizeVars>>

\* func benchHandler: two headers and the body "1" (49), status 200 implied.
benchHandler(r) ==
    /\ pc[r] = "handler"
    /\ route[r] = "bench"
    /\ status' = [status EXCEPT ![r] = 200]
    /\ out' = [out EXCEPT ![r] = <<49>>]
    /\ pc' = [pc EXCEPT ![r] = afterHandler]
    /\ UNCHANGED <<metricsEnabled, route, req, iter, panicked, metricsVars,
                   healthVars, content, buffers, bufferPool, recycled, released,
                   fillVars, sizeVars>>

BeginBench(r) == Begin(r, "bench", NoRequest, MaxIter)

\* ------------------------------------------------------------ healthHandler
\* The integers a POST /health body carries in the model: two conventional
\* codes, the three-digit 999 and the four-digit 1000.
Codes == {200, 503, 999, 1000}

\* Request bodies: a JSON integer, the JSON literal null, and a body Decode
\* rejects (no body, "abc", 1.5, "503", a number beyond int).
Bodies ==
    {[kind |-> "int", val |-> c] : c \in Codes}
        \cup {[kind |-> "null", val |-> 0], [kind |-> "garbage", val |-> 0]}

\* The requests sent to /health: a read (GET stands for every method but
\* POST, all of which take the same branch) and writes with every body.
HealthRequests ==
    {[NoRequest EXCEPT !.method = "GET"]}
        \cup {[NoRequest EXCEPT !.method = "POST", !.body = b] : b \in Bodies}

\* json.NewDecoder(req.Body).Decode(&v) for v of type int holding `old`: a
\* JSON integer is stored; null is accepted and leaves v as it is (encoding/json:
\* null into a non-pointer has no effect and is no error); anything else,
\* and the end of an empty body, is an error.
Decode(b, old) ==
    CASE b.kind = "int" -> [err |-> FALSE, val |-> b.val]
      [] b.kind = "null" -> [err |-> FALSE, val |-> old]
      [] OTHER -> [err |-> TRUE, val |-> old]

\* w.WriteHeader(code) of net/http: a code below 100 or above 999 panics
\* ("invalid WriteHeader code"); any other code becomes the status line.
\* (Codes 100..199, which newer servers send as interim responses, are not
\* among Codes.)
WriteHeader(code) ==
    IF code < 100 \/ code > 999
    THEN [panic |-> TRUE, status |-> 0]
    ELSE [panic |-> FALSE, status |-> code]

\* sync.RWMutex.  writer is the goroutine inside Lock()..Unlock(): from the
\* moment Lock() has announced itself it keeps other writers and new readers
\* out, and it is granted the lock when the readers inside have left.
\* readers are the goroutines between RLock() and RUnlock().
CanLock(m) == m.writer = 0
LockGranted(m) == m.readers = {}
CanRLockBesideWriter(m) == TRUE
CanRLock(m) == m.writer = 0

\* The goroutines that hold the health state: for writing, for reading.
Writing == {r \in Requests : pc[r] \in {"hWrite", "hUnlock"}}
Reading == {r \in Requests : pc[r] \in {"hRead", "hRUnlock"}}

BeginHealth(r) == \E rq \in HealthRequests : Begin(r, "health", rq, 1)

\* POST: Decode(&statusCode); on an error http.Error(w, ..., 400) and return.
healthHandlerDecodeIgnoreErr(r) ==
    /\ pc[r] = "handler"
    /\ route[r] = "health"
    /\ req[r].method = "POST"
    /\ statusCode' = [statusCode EXCEPT ![r] = Decode(req[r].body, 0).val]
    /\ pc' = [pc EXCEPT ![r] = "hLock"]
    /\ UNCHANGED <<metricsEnabled, route, req, iter, panicked, status, metricsVars,
                   currentHealthState, mutexHealthState, seen, lastWrite, touched,
                   dataVars, fillVars, sizeVars>>
healthHandlerDecode(r) ==
    /\ pc[r] = "handler"
    /\ route[r] = "health"
    /\ req[r].method = "POST"
    /\ LET d == Decode(req[r].body, 0)
       IN  IF d.err
           THEN /\ status' = [status EXCEPT ![r] = 400]
                /\ pc' = [pc EXCEPT ![r] = afterHandler]
                /\ UNCHANGED statusCode
           ELSE /\ statusCode' = [statusCode EXCEPT ![r] = d.val]
                /\ pc' = [pc EXCEPT ![r] = "hLock"]
                /\ UNCHANGED status
    /\ UNCHANGED <<metricsEnabled, route, req, iter, panicked, metricsVars,
                   currentHealthState, mutexHealthState, seen, lastWrite, touched,
                   dataVars, fillVars, sizeVars>>

\* mutexHealthState.Lock(), first half: the writer announces itself.
healthHandlerLock(r) ==
    /\ pc[r] = "hLock"
    /\ CanLock(mutexHealthState)
    /\ mutexHealthState' = [mutexHealthState EXCEPT !.writer = r]
    /\ touched' = [touched EXCEPT ![r] = TRUE]
    /\ pc' = [pc EXCEPT ![r] = "hLockWait"]
    /\ UNCHANGED <<metricsEnabled, route, req, iter, panicked, status, metricsVars,
                   currentHealthState, statusCode, seen, lastWrite, dataVars,
                   fillVars, sizeVars>>

\* mutexHealthState.Lock(), second half: Lock() returns when no reader is inside.
healthHandlerLocked(r) ==
    /\ pc[r] = "hLockWait"
    /\ LockGranted(mutexHealthState)
    /\ pc' = [pc EXCEPT ![r] = "hWrite"]
    /\ UNCHANGED <<metricsEnabled, route, req, iter, panicked, status, metricsVars,
                   healthVars, dataVars, fillVars, sizeVars>>

\* currentHealthState.StatusCode = statusCode
healthHandlerWrite(r) ==
    /\ pc[r] = "hWrite"
    /\ currentHealthState' = statusCode[r]
    /\ touched' = [touched EXCEPT ![r] = TRUE]
    /\ pc' = [pc EXCEPT ![r] = "hUnlock"]
    /\ UNCHANGED <<metricsEnabled, route, req, iter, panicked, status, metricsVars,
                   mutexHealthState, statusCode, seen, lastWrite, dataVars,
                   fillVars, sizeVars>>

\* defer mutexHealthState.Unlock(): the write is complete.  The handler
\* returns having written no header, and the server sends status 200.
healthHandlerUnlockMissing(r) ==
    /\ pc[r] = "hUnlock"
    /\ lastWrite' = req[r].body
    /\ status' = [status EXCEPT ![r] = 200]
    /\ pc' = [pc EXCEPT ![r] = afterHandler]
    /\ UNCHANGED <<metricsEnabled, route, req, iter, panicked, metricsVars,
                   currentHealthState, mutexHealthState, statusCode, seen, touched,
                   dataVars, fillVars, sizeVars>>
healthHandlerUnlock(r) ==
    /\ pc[r] = "hUnlock"
    /\ mutexHealthState' = [mutexHealthState EXCEPT !.writer = 0]
    /\ lastWrite' = req[r].body
    /\ status' = [status EXCEPT ![r] = 200]
    /\ pc' = [pc EXCEPT ![r] = afterHandler]
    /\ UNCHANGED <<metricsEnabled, route, req, iter, panicked, metricsVars,
                   currentHealthState, statusCode, seen, touched, dataVars,
                   fillVars, sizeVars>>

\* any other method: mutexHealthState.RLock()
healthHandlerRLock(r) ==
    /\ pc[r] = "handler"
    /\ route[r] = "health"
    /\ req[r].method # "POST"
    /\ CanRLock(mutexHealthState)
    /\ mutexHealthState' = [mutexHealthState EXCEPT !.readers = @ \cup {r}]
    /\ touched' = [touched EXCEPT ![r] = TRUE]
    /\ pc' = [pc EXCEPT ![r] = "hRead"]
    /\ UNCHANGED <<metricsEnabled, route, req, iter, panicked, status, metricsVars,
                   currentHealthState, statusCode, seen, lastWrite, dataVars,
                   fillVars, sizeVars>>

\* w.WriteHeader(currentHealthState.StatusCode)
healthHandlerRead(r) ==
    /\ pc[r] = "hRead"
    /\ LET o == WriteHeader(currentHealthState)
       IN  /\ status' = [status EXCEPT ![r] = o.status]
           /\ panicked' = [panicked EXCEPT ![r] = o.panic]
    /\ seen' = [seen EXCEPT ![r] = currentHealthState]
    /\ pc' = [pc EXCEPT ![r] = "hRUnlock"]
    /\ UNCHANGED <<metricsEnabled, route, req, iter, metricsVars,
                   currentHealthState, mutexHealthState, statusCode, lastWrite,
                   touched, dataVars, fillVars, sizeVars>>

\* defer mutexHealthState.RUnlock(), run on return and while a panic unwinds.
healthHandlerRUnlockPanicEscapes(r) ==
    /\ pc[r] = "hRUnlock"
    /\ mutexHealthState' = [mutexHealthState EXCEPT !.readers = @ \ {r}]
    /\ pc' = [pc EXCEPT ![r] = IF panicked[r] THEN "respond" ELSE afterHandler]
    /\ UNCHANGED <<metricsEnabled, route, req, iter, panicked, status, metricsVars,
                   currentHealthState, statusCode, seen, lastWrite, touched,
                   dataVars, fillVars, sizeVars>>
healthHandlerRUnlock(r) ==
    /\ pc[r] = "hRUnlock"
    /\ mutexHealthState' = [mutexHealthState EXCEPT !.readers = @ \ {r}]
    /\ pc' = [pc EXCEPT ![r] = afterHandler]
    /\ UNCHANGED <<metricsEnabled, route, req, iter, panicked, status, metricsVars,
                   currentHealthState, statusCode, seen, lastWrite, touched,
                   dataVars, fillVars, sizeVars>>

\* -------------------------------------------------------------- dataHandler
\* strconv.ParseInt(queryParams.Get("size"), 10, 64)
ParseInt(q) ==
    IF q.kind = "int" THEN [err |-> FALSE, val |-> q.val]
    ELSE [err |-> TRUE, val |-> Int64(0)]

\* The exponent of the unit's multiplier: KB = 1 << 10, MB = 1 << 20,
\* GB = 1 << 30, TB = 1 << 40; strings.ToLower(unit) picks it.
ToLower(u) ==
    CASE u \in {"kb", "KB", "Kb", "kB"} -> "kb"
      [] u \in {"mb", "MB", "Mb", "mB"} -> "mb"
      [] u \in {"gb", "GB", "Gb", "gB"} -> "gb"
      [] u \in {"tb", "TB", "Tb", "tB"} -> "tb"
      [] OTHER -> u
UnitShift(u) ==
    CASE ToLower(u) = "kb" -> 10
      [] ToLower(u) = "mb" -> 20
      [] ToLower(u) = "gb" -> 30
      [] ToLower(u) = "tb" -> 40
      [] OTHER -> 0

\* size after lines 119-137: 1 when ParseInt fails, 0 when negative, then
\* multiplied by the unit in int64 arithmetic.
dataSize(rq) ==
    LET p == ParseInt(rq.size)
        parsed == IF p.err THEN Int64(1) ELSE p.val
        clamped == IF IsNeg(parsed) THEN Int64(0) ELSE parsed
    IN  Shl(clamped, UnitShift(rq.unit))

\* Lines 116-137 on their own: the size dataHandler computes for a request.
DataSize ==
    /\ sizePc = "call"
    /\ size' = dataSize(sizeReq)
    /\ sizePc' = "done"
    /\ UNCHANGED sizeReq
    /\ UNCHANGED <<metricsEnabled, requestVars, metricsVars, healthVars, dataVars,
                   fillVars>>

\* The /data requests of SpecPool: size 0 .. MaxSize, no unit, inline or as an
\* attachment.
DataRequests ==
    {[NoRequest EXCEPT !.size = [kind |-> "int", val |-> Int64(v)], !.attachment = a] :
        v \in 0..MaxSize, a \in BOOLEAN}

BeginData(r) == \E rq \in DataRequests : Begin(r, "data", rq, 1)

\* The heap address New gives the buffer allocated for caller r's request:
\* one address per request, so no two allocations share one.
FreshAddress(r) == r + Cardinality(Requests) * (iter[r] - 1)

\* func GetPooledBuffer: bufferPool.Get() hands out a buffer the pool holds, or
\* calls New (a sync.Pool may miss although it holds buffers).
dataHandlerGetShared(r) ==
    /\ pc[r] = "handler"
    /\ route[r] = "data"
    /\ \/ \E b \in bufferPool :
            /\ bufferPool' = bufferPool
            /\ content' = [content EXCEPT ![r] = b]
            /\ recycled' = [recycled EXCEPT ![r] = TRUE]
            /\ UNCHANGED buffers
       \/ /\ buffers' = [a \in DOMAIN buffers \cup {FreshAddress(r)} |->
                            IF a = FreshAddress(r) THEN NewBuffer ELSE buffers[a]]
          /\ content' = [content EXCEPT ![r] = FreshAddress(r)]
          /\ recycled' = [recycled EXCEPT ![r] = FALSE]
          /\ UNCHANGED bufferPool
    /\ pc' = [pc EXCEPT ![r] = "dFill"]
    /\ UNCHANGED <<metricsEnabled, route, req, iter, panicked, status, metricsVars,
                   healthVars, out, released, fillVars, sizeVars>>
dataHandlerGet(r) ==
    /\ pc[r] = "handler"
    /\ route[r] = "data"
    /\ \/ \E b \in bufferPool :
            /\ bufferPool' = bufferPool \ {b}
            /\ content' = [content EXCEPT ![r] = b]
            /\ recycled' = [recycled EXCEPT ![r] = TRUE]
            /\ UNCHANGED buffers
       \/ /\ buffers' = [a \in DOMAIN buffers \cup {FreshAddress(r)} |->
                            IF a = FreshAddress(r) THEN NewBuffer ELSE buffers[a]]
          /\ content' = [content EXCEPT ![r] = FreshAddress(r)]
          /\ recycled' = [recycled EXCEPT ![r] = FALSE]
          /\ UNCHANGED bufferPool
    /\ pc' = [pc EXCEPT ![r] = "dFill"]
    /\ UNCHANGED <<metricsEnabled, route, req, iter, panicked, status, metricsVars,
                   healthVars, out, released, fillVars, sizeVars>>

\* func fillContentPooled: writeContent(b, length).  The lengths of the
\* requests that reach it in the model are small enough for Int.
dataHandlerFill(r) ==
    /\ pc[r] = "dFill"
    /\ buffers' = [buffers EXCEPT ![content[r]] =
                      writeContent(@, ToInt(dataSize(req[r])))]
    /\ pc' = [pc EXCEPT ![r] = "dServe"]
    /\ UNCHANGED <<metricsEnabled, route, req, iter, panicked, status, metricsVars,
                   healthVars, content, bufferPool, out, recycled, released,
                   fillVars, sizeVars>>

\* attachment: http.ServeContent reads a copy of content.Bytes(), the buffer
\* stays as it is.  Otherwise io.Copy(w, content) drains the buffer into the
\* response: n bytes go out; when all did the buffer resets itself, when the
\* client fell away before that the rest stays unread and http.Error follows.
\* Either way the first write has sent status 200.
dataHandlerServeNoDefer(r) ==
    /\ pc[r] = "dServe"
    /\ LET b == buffers[content[r]]
       IN  IF req[r].attachment
           THEN /\ out' = [out EXCEPT ![r] = Bytes(b)]
                /\ pc' = [pc EXCEPT ![r] = afterHandler]
                /\ UNCHANGED buffers
           ELSE \E n \in 0..BufLen(b) :
                   /\ out' = [out EXCEPT ![r] = SubSeq(Bytes(b), 1, n)]
                   /\ buffers' = [buffers EXCEPT ![content[r]] =
                                     IF n = BufLen(b) THEN Reset(b)
                                     ELSE [b EXCEPT !.off = @ + n]]
                   /\ pc' = [pc EXCEPT ![r] = IF n = BufLen(b) THEN "dClose"
                                              ELSE afterHandler]
    /\ status' = [status EXCEPT ![r] = 200]
    /\ UNCHANGED <<metricsEnabled, route, req, iter, panicked, metricsVars,
                   healthVars, content, bufferPool, recycled, released, fillVars, sizeVars>>
dataHandlerServe(r) ==
    /\ pc[r] = "dServe"
    /\ LET b == buffers[content[r]]
       IN  IF req[r].attachment
           THEN /\ out' = [out EXCEPT ![r] = Bytes(b)]
                /\ UNCHANGED buffers
           ELSE \E n \in 0..BufLen(b) :
                   /\ out' = [out EXCEPT ![r] = SubSeq(Bytes(b), 1, n)]
                   /\ buffers' = [buffers EXCEPT ![content[r]] =
                                     IF n = BufLen(b) THEN Reset(b)
                                     ELSE [b EXCEPT !.off = @ + n]]
    /\ status' = [status EXCEPT ![r] = 200]
    /\ pc' = [pc EXCEPT ![r] = "dClose"]
    /\ UNCHANGED <<metricsEnabled, route, req, iter, panicked, metricsVars,
                   healthVars, content, bufferPool, recycled, released, fillVars, sizeVars>>

\* defer content.Close(): b.Reset(); bufferPool.Put(b)
CloseNoReset(r) ==
    /\ pc[r] = "dClose"
    /\ bufferPool' = bufferPool \cup {content[r]}
    /\ released' = [released EXCEPT ![r] = @ + 1]
    /\ pc' = [pc EXCEPT ![r] = afterHandler]
    /\ UNCHANGED <<metricsEnabled, route, req, iter, panicked, status, metricsVars,
                   healthVars, content, buffers, out, recycled, fillVars, sizeVars>>
Close(r) ==
    /\ pc[r] = "dClose"
    /\ buffers' = [buffers EXCEPT ![content[r]] = Reset(@)]
    /\ bufferPool' = bufferPool \cup {content[r]}
    /\ released' = [released EXCEPT ![r] = @ + 1]
    /\ pc' = [pc EXCEPT ![r] = afterHandler]
    /\ UNCHANGED <<metricsEnabled, route, req, iter, panicked, status, metricsVars,
                   healthVars, content, out, recycled, fillVars, sizeVars>>

\* sync.Pool drops a buffer it holds (any may be removed at any time); the
\* garbage collector frees it.
PoolDrop ==
    /\ \E b \in bufferPool :
          /\ bufferPool' = bufferPool \ {b}
          /\ buffers' = Collect(buffers, bufferPool', content)
    /\ UNCHANGED <<metricsEnabled, requestVars, metricsVars, healthVars, content,
                   out, recycled, released, fillVars, sizeVars>>

\* ---------------------------------------------------------- initial states
\* The server after main() has registered its routes, with n callers about to
\* send requests: counters zero (buffer_pool.go:47-49), health state 200
\* (app.go:292), the mutex free, the pool empty.
InitServerZeroHealth(n, enabled) ==
    /\ metricsEnabled = enabled
    /\ pc = [r \in 1..n |-> "idle"]
    /\ route = [r \in 1..n |-> "none"]
    /\ req = [r \in 1..n |-> NoRequest]
    /\ iter = [r \in 1..n |-> 0]
    /\ panicked = [r \in 1..n |-> FALSE]
    /\ status = [r \in 1..n |-> 0]
    /\ totalRequestCount = 0
    /\ concurrentRequestCount = 0
    /\ maxConcurrentRequestCount = 0
    /\ count = [r \in 1..n |-> 0]
    /\ peak = 0
    /\ currentHealthState = 0
    /\ mutexHealthState = [writer |-> 0, readers |-> {}]
    /\ statusCode = [r \in 1..n |-> 0]
    /\ seen = [r \in 1..n |-> -1]
    /\ lastWrite = [kind |-> "none", val |-> 0]
    /\ touched = [r \in 1..n |-> FALSE]
    /\ content = [r \in 1..n |-> 0]
    /\ buffers = <<>>
    /\ bufferPool = {}
    /\ out = [r \in 1..n |-> <<>>]
    /\ recycled = [r \in 1..n |-> FALSE]
    /\ released = [r \in 1..n |-> 0]
InitServer(n, enabled) ==
    /\ metricsEnabled = enabled
    /\ pc = [r \in 1..n |-> "idle"]
    /\ route = [r \in 1..n |-> "none"]
    /\ req = [r \in 1..n |-> NoRequest]
    /\ iter = [r \in 1..n |-> 0]
    /\ panicked = [r \in 1..n |-> FALSE]
    /\ status = [r \in 1..n |-> 0]
    /\ totalRequestCount = 0
    /\ concurrentRequestCount = 0
    /\ maxConcurrentRequestCount = 0
    /\ count = [r \in 1..n |-> 0]
    /\ peak = 0
    /\ currentHealthState = 200
    /\ mutexHealthState = [writer |-> 0, readers |-> {}]
    /\ statusCode = [r \in 1..n |-> 0]
    /\ seen = [r \in 1..n |-> -1]
    /\ lastWrite = [kind |-> "none", val |-> 0]
    /\ touched = [r \in 1..n |-> FALSE]
    /\ content = [r \in 1..n |-> 0]
    /\ buffers = <<>>
    /\ bufferPool = {}
    /\ out = [r \in 1..n |-> <<>>]
    /\ recycled = [r \in 1..n |-> FALSE]
    /\ released = [r \in 1..n |-> 0]

\* No call of writeContent on its own is under way.
InitNoFill ==
    /\ fillLength = 0
    /\ fillW = NewBuffer
    /\ fillW0 = NewBuffer
    /\ fillPc = "done"

\* No computation of the size on its own is under way.
InitNoSize ==
    /\ sizeReq = NoRequest
    /\ size = Int64(0)
    /\ sizePc = "done"

\* ------------------------------------------------------------ SpecFill
\* writeContent called with any length from -1 to MaxLen on each target.
InitFill ==
    /\ InitServer(0, FALSE)
    /\ fillLength \in -1..MaxLen
    /\ fillW \in FillTargets
    /\ fillW0 = fillW
    /\ fillPc = "call"
    /\ InitNoSize

NextFill == FillContent

SpecFill == InitFill /\ [][NextFill]_vars

\* ------------------------------------------------------------ SpecSize
\* The size parameters: small integers of either sign, every power of two
\* 2^k (2^63 read as the lowest int64), every 2^k - 1 up to the highest
\* int64, every -2^k, and a parameter ParseInt rejects.
SizeValues ==
    {Int64(n) : n \in {-1000, -2, -1, 0, 1, 2, 3, 1023, 1025}}
        \cup {{k} : k \in 0..(Width - 1)}
        \cup {0..k : k \in 0..(Width - 2)}
        \cup {(0..(Width - 1)) \ (0..k) : k \in 0..(Width - 2)}

\* The unit parameters: none, the four units in several spellings, and some
\* that are no unit.
Units == {"", "kb", "KB", "Kb", "mb", "MB", "gb", "gB", "tb", "TB", "b", "kib"}

SizeRequests ==
    {[NoRequest EXCEPT !.size = q, !.unit = u] :
        q \in {[kind |-> "int", val |-> v] : v \in SizeValues}
                \cup {[kind |-> "bad", val |-> {}]},
        u \in Units}

\* dataHandler computing its size for each of these requests.
InitSize ==
    /\ InitServer(0, FALSE)
    /\ InitNoFill
    /\ sizeReq \in SizeRequests
    /\ size = Int64(0)
    /\ sizePc = "call"

NextSize == DataSize

SpecSize == InitSize /\ [][NextSize]_vars

\* ------------------------------------------------------------ SpecMetrics
\* MetricsCallers concurrent callers, each sending MaxIter requests to /bench
\* with -metrics on.
InitMetrics == InitServer(MetricsCallers, TRUE) /\ InitNoFill /\ InitNoSize

NextMetrics ==
    \/ \E r \in Requests : BeginBench(r)
    \/ \E r \in Requests : onHandleRequestStartAdd(r)
    \/ \E r \in Requests : onHandleRequestStartTotal(r)
    \/ \E r \in Requests : onHandleRequestStartUpdate(r)
    \/ \E r \in Requests : benchHandler(r)
    \/ \E r \in Requests : onHandleRequestFinish(r)
    \/ \E r \in Requests : Respond(r)

SpecMetrics == InitMetrics /\ [][NextMetrics]_vars

\* ------------------------------------------------------------ SpecHealth
\* HealthCallers callers, each sending one request to /health at a time of its
\* choosing (so requests overlap or follow one another), with -metrics off.
InitHealth == InitServer(HealthCallers, FALSE) /\ InitNoFill /\ InitNoSize

NextHealth ==
    \/ \E r \in Requests : BeginHealth(r)
    \/ \E r \in Requests : healthHandlerDecode(r)
    \/ \E r \in Requests : healthHandlerLock(r)
    \/ \E r \in Requests : healthHandlerLocked(r)
    \/ \E r \in Requests : healthHandlerWrite(r)
    \/ \E r \in Requests : healthHandlerUnlock(r)
    \/ \E r \in Requests : healthHandlerRLock(r)
    \/ \E r \in Requests : healthHandlerRead(r)
    \/ \E r \in Requests : healthHandlerRUnlock(r)
    \/ \E r \in Requests : Respond(r)

SpecHealth == InitHealth /\ [][NextHealth]_vars

\* ------------------------------------------------------------ SpecWrapped
\* WrappedCallers callers, each sending one request to /health at a time of
\* its choosing, with -metrics on: healthHandler inside
\* metricsMiddleware.ServeHTTP.
InitWrapped == InitServer(WrappedCallers, TRUE) /\ InitNoFill /\ InitNoSize

\* A step of the goroutine that serves caller r's request.
WrappedStep(r) ==
    \/ onHandleRequestStartAdd(r)
    \/ onHandleRequestStartTotal(r)
    \/ onHandleRequestStartUpdate(r)
    \/ healthHandlerDecode(r)
    \/ healthHandlerLock(r)
    \/ healthHandlerLocked(r)
    \/ healthHandlerWrite(r)
    \/ healthHandlerUnlock(r)
    \/ healthHandlerRLock(r)
    \/ healthHandlerRead(r)
    \/ healthHandlerRUnlock(r)
    \/ onHandleRequestFinish(r)
    \/ Respond(r)

NextWrapped ==
    \/ \E r \in Requests : BeginHealth(r)
    \/ \E r \in Requests : onHandleRequestStartAdd(r)
    \/ \E r \in Requests : onHandleRequestStartTotal(r)
    \/ \E r \in Requests : onHandleRequestStartUpdate(r)
    \/ \E r \in Requests : healthHandlerDecode(r)
    \/ \E r \in Requests : healthHandlerLock(r)
    \/ \E r \in Requests : healthHandlerLocked(r)
    \/ \E r \in Requests : healthHandlerWrite(r)
    \/ \E r \in Requests : healthHandlerUnlock(r)
    \/ \E r \in Requests : healthHandlerRLock(r)
    \/ \E r \in Requests : healthHandlerRead(r)
    \/ \E r \in Requests : healthHandlerRUnlock(r)
    \/ \E r \in Requests : onHandleRequestFinish(r)
    \/ \E r \in Requests : Respond(r)

SpecWrapped == InitWrapped /\ [][NextWrapped]_vars

\* ------------------------------------------------------------ SpecLive
\* LiveCallers callers with -metrics on, each sending to /health, at a time
\* of its choosing, a read, a write of 1000 (after which reads panic) or a
\* write Decode rejects.
LiveRequests ==
    {rq \in HealthRequests :
        rq.method # "POST" \/ rq.body.kind = "garbage" \/ rq.body.val = 1000}

BeginLive(r) == \E rq \in LiveRequests : Begin(r, "health", rq, 1)

InitLive == InitServer(LiveCallers, TRUE) /\ InitNoFill /\ InitNoSize

NextLive ==
    \/ \E r \in Requests : BeginLive(r)
    \/ \E r \in Requests : onHandleRequestStartAdd(r)
    \/ \E r \in Requests : onHandleRequestStartTotal(r)
    \/ \E r \in Requests : onHandleRequestStartUpdate(r)
    \/ \E r \in Requests : healthHandlerDecode(r)
    \/ \E r \in Requests : healthHandlerLock(r)
    \/ \E r \in Requests : healthHandlerLocked(r)
    \/ \E r \in Requests : healthHandlerWrite(r)
    \/ \E r \in Requests : healthHandlerUnlock(r)
    \/ \E r \in Requests : healthHandlerRLock(r)
    \/ \E r \in Requests : healthHandlerRead(r)
    \/ \E r \in Requests : healthHandlerRUnlock(r)
    \/ \E r \in Requests : onHandleRequestFinish(r)
    \/ \E r \in Requests : Respond(r)

\* The Go scheduler runs every goroutine that can run, and a goroutine
\* blocked in Lock or RLock is woken when the lock becomes free: a request
\* whose next step stays possible takes it.  Nothing obliges a caller to
\* send its request.
SpecLive ==
    InitLive /\ [][NextLive]_vars /\ \A r \in 1..LiveCallers : WF_vars(WrappedStep(r))

\* ------------------------------------------------------------ SpecPool
\* DataCallers callers, each sending one request to /data at a time of its
\* choosing (so requests overlap or follow one another), with -metrics off.
InitPool == InitServer(DataCallers, FALSE) /\ InitNoFill /\ InitNoSize

NextPool ==
    \/ \E r \in Requests : BeginData(r)
    \/ \E r \in Requests : dataHandlerGet(r)
    \/ \E r \in Requests : dataHandlerFill(r)
    \/ \E r \in Requests : dataHandlerServe(r)
    \/ \E r \in Requests : Close(r)
    \/ \E r \in Requests : Respond(r)
    \/ PoolDrop

SpecPool == InitPool /\ [][NextPool]_vars

\* ------------------------------------------------------------ Spec
\* The whole server, started with or without -metrics: ServerCallers callers,
\* each sending a first request to any of /bench, /health and /data and then
\* requests to /bench.
Init == (\E enabled \in BOOLEAN : InitServer(ServerCallers, enabled)) /\ InitNoFill /\ InitNoSize

Next ==
    \/ \E r \in Requests : BeginBench(r)
    \/ \E r \in Requests : BeginHealth(r)
    \/ \E r \in Requests : BeginData(r)
    \/ \E r \in Requests : onHandleRequestStartAdd(r)
    \/ \E r \in Requests : onHandleRequestStartTotal(r)
    \/ \E r \in Requests : onHandleRequestStartUpdate(r)
    \/ \E r \in Requests : benchHandler(r)
    \/ \E r \in Requests : healthHandlerDecode(r)
    \/ \E r \in Requests : healthHandlerLock(r)
    \/ \E r \in Requests : healthHandlerLocked(r)
    \/ \E r \in Requests : healthHandlerWrite(r)
    \/ \E r \in Requests : healthHandlerUnlock(r)
    \/ \E r \in Requests : healthHandlerRLock(r)
    \/ \E r \in Requests : healthHandlerRead(r)
    \/ \E r \in Requests : healthHandlerRUnlock(r)
    \/ \E r \in Requests : dataHandlerGet(r)
    \/ \E r \in Requests : dataHandlerFill(r)
    \/ \E r \in Requests : dataHandlerServe(r)
    \/ \E r \in Requests : Close(r)
    \/ \E r \in Requests : onHandleRequestFinish(r)
    \/ \E r \in Requests : Respond(r)
    \/ PoolDrop

Spec == Init /\ [][Next]_vars

\* ================================================================ claims
\* ------------------------------------------------------------- writeContent
\* What the call of writeContent appended to its target.
Appended == SubSeq(Bytes(fillW), BufLen(fillW0) + 1, BufLen(fillW))

\* The filler byte the specification gives for output offset i: '-' when i is
\* a multiple of 27, else the (i mod 27)-th capital letter.
ExpectedFiller(i) == IF i % 27 = 0 THEN 45 ELSE 64 + (i % 27)

\* C1: for every length L >= 0, writeContent appends exactly L bytes to its
\* target and leaves what the target held in place: nothing for L = 0, one
\* '|' for L = 1, and for L >= 2 bytes that start and end with '|' (exactly
\* "||" for L = 2).
C1_ExactLength ==
    (fillPc = "done" /\ fillLength >= 0) =>
        /\ BufLen(fillW) = BufLen(fillW0) + fillLength
        /\ SubSeq(Bytes(fillW), 1, BufLen(fillW0)) = Bytes(fillW0)
        /\ Len(Appended) = fillLength
        /\ fillLength = 1 => Appended = <<124>>
        /\ fillLength = 2 => Appended = <<124, 124>>
        /\ fillLength >= 2 => Appended[1] = 124 /\ Appended[fillLength] = 124

\* C1 witness: a call with L >= 2 on a target that held unread bytes is done.
C1_Witness == fillPc = "done" /\ fillLength >= 2 /\ BufLen(fillW0) > 0

\* C2: for every L > 1 the byte at output offset i, 1 <= i <= L-2, is
\* CHARSET[i mod 27] of the 27 symbols '-', 'A'..'Z'; length 10 gives
\* "|ABCDEFGH|".
C2_CyclicFiller ==
    (fillPc = "done" /\ fillLength > 1) =>
        /\ \A i \in 1..(fillLength - 2) : Appended[i + 1] = ExpectedFiller(i)
        /\ fillLength = 10 =>
               Appended = <<124, 65, 66, 67, 68, 69, 70, 71, 72, 124>>

\* C2 witness: a call long enough for the index to wrap (offset 27 is '-').
C2_Witness == fillPc = "done" /\ fillLength >= 29 /\ Appended[28] = 45

\* ------------------------------------------------------------- buffer pool
\* C3: a buffer GetPooledBuffer has handed out holds no bytes until its
\* request writes to it (length 0, read offset 0), whether new or recycled,
\* and every buffer the pool holds has been reset to length 0.
C3_AcquiredBufferEmpty ==
    /\ \A r \in Requests :
          pc[r] = "dFill" =>
              /\ BufLen(buffers[content[r]]) = 0
              /\ buffers[content[r]].len = 0
              /\ Bytes(buffers[content[r]]) = <<>>
    /\ \A b \in bufferPool : buffers[b].len = 0 /\ buffers[b].off = 0

\* C3 witness: a request has acquired, and not yet written, a recycled buffer
\* that an earlier request had filled with bytes.
C3_Witness ==
    \E r \in Requests :
        pc[r] = "dFill" /\ recycled[r] /\ Len(buffers[content[r]].arr) > 0

\* ------------------------------------------------------- metricsMiddleware
\* Every caller has sent all its requests and each has been served.
AllComplete == \A r \in Requests : pc[r] = "idle" /\ iter[r] = MaxIter

\* The requests between the increment of the in-flight counter and the
\* Update call of their onHandleRequestStart.
PendingStarts == {r \in Requests : pc[r] \in {"mwTotal", "mwUpdate"}}

\* The requests that have incremented the in-flight counter and not yet
\* decremented it.
InFlight == {r \in Requests : pc[r] \in {"mwTotal", "mwUpdate", "handler", "mwFinish"}}

\* C4: when K = MaxIter requests of each of M = MetricsCallers concurrent
\* callers have all completed, the in-flight counter is 0 and the total
\* counter is K*M.
C4_PairsBalance ==
    AllComplete =>
        /\ concurrentRequestCount = 0
        /\ totalRequestCount = MaxIter * MetricsCallers

\* C4 witness: all requests completed and at least two of them overlapped.
C4_Witness == AllComplete /\ peak >= 2

\* C5: the maximum never decreases, and whenever no onHandleRequestStart is
\* between its increment and its Update, it equals the highest value the
\* in-flight counter ever took.
C5_MaxMonotonePeak ==
    /\ [](PendingStarts = {} => maxConcurrentRequestCount = peak)
    /\ [][maxConcurrentRequestCount' >= maxConcurrentRequestCount]_vars

\* C5 witness: a request wrote a candidate lower than the stored maximum
\* after a concurrent request had stored the higher one.
C5_Witness ==
    /\ PendingStarts = {}
    /\ maxConcurrentRequestCount >= 2
    /\ \E r \in Requests : pc[r] = "handler" /\ count[r] < maxConcurrentRequestCount

\* C6 as stated: in every reachable state the maximum is at least every
\* value the in-flight counter has taken.
C6_MaxCoversPeakAlways == maxConcurrentRequestCount >= peak

\* C6 amended: in every reachable state the maximum is at least the highest
\* in-flight value so far minus the number of requests between the
\* increment and the Update of their onHandleRequestStart.
C6_MaxLagsByPending == maxConcurrentRequestCount + Cardinality(PendingStarts) >= peak

\* C6 witness: a request stands between its increment and its Update and the
\* maximum is below the in-flight counter.
C6_Witness ==
    /\ PendingStarts # {}
    /\ maxConcurrentRequestCount < concurrentRequestCount

\* C7: in every reachable state the three counters are non-negative, and the
\* in-flight counter is the number of requests that have incremented it and
\* not yet decremented it.
C7_CountersNonNegative ==
    /\ concurrentRequestCount >= 0
    /\ totalRequestCount >= 0
    /\ maxConcurrentRequestCount >= 0
    /\ concurrentRequestCount = Cardinality(InFlight)

\* C7 witness: a request has decremented the in-flight counter back to 0.
C7_Witness ==
    /\ concurrentRequestCount = 0
    /\ \E r \in Requests : pc[r] = "respond" /\ count[r] > 1

\* ------------------------------------------------------------ healthHandler
\* The code the latest completed write passed to the state: the integer of
\* its body (what Decode made of the body), or the initial 200 when no
\* write has completed.
CompletedCode == IF lastWrite.kind = "none" THEN 200 ELSE Decode(lastWrite, 0).val

\* A POST /health whose body Decode rejects.
BadPost(r) ==
    /\ route[r] = "health"
    /\ req[r].method = "POST"
    /\ req[r].body.kind \notin {"int", "null"}

\* C8 as stated: a read that follows the completed write of an integer body,
\* with no write in between, sends exactly that integer as its status,
\* whatever the integer.  (The reader still holds its read lock at
\* "hRUnlock", so no write has completed since it read.)
C8_ReadReturnsWrittenCode ==
    \A r \in Requests :
        (pc[r] = "hRUnlock" /\ lastWrite.kind = "int") => status[r] = lastWrite.val

\* The part of C8 that holds: the round trip for the three-digit integers.
C8_ThreeDigitRoundTrip ==
    \A r \in Requests :
        (pc[r] = "hRUnlock" /\ lastWrite.kind = "int"
            /\ lastWrite.val >= 100 /\ lastWrite.val <= 999)
        => status[r] = lastWrite.val /\ ~panicked[r]

\* C9: no writer of the health code holds the state together with a reader
\* or another writer, and what a read passes on is the code of the latest
\* completed write, or the initial 200 before any write has completed.
C9_WriterExcludes ==
    /\ Cardinality(Writing) <= 1
    /\ Writing # {} => Reading = {}
    /\ \A r \in Requests : pc[r] = "hRUnlock" => seen[r] = CompletedCode

\* C9 witness: a writer holds the state while a read request waits for it.
C9_Witness ==
    /\ \E w \in Requests : pc[w] = "hUnlock"
    /\ \E r \in Requests : pc[r] = "handler" /\ req[r].method = "GET"

\* Readers do share the state: two of them inside at once.
C9_ReadersShare == Cardinality(Reading) >= 2

C11_OnlyWritePathMutates ==
    /\ []((lastWrite.kind = "none" /\ Writing = {}) => currentHealthState = 200)
    /\ [](\A r \in Requests :
            (pc[r] = "hRUnlock" /\ lastWrite.kind = "none") =>
                seen[r] = 200 /\ status[r] = 200)
    /\ [][currentHealthState' # currentHealthState =>
            \E r \in Requests :
                /\ route[r] = "health"
                /\ req[r].method = "POST"
                /\ pc[r] = "hWrite"
                /\ pc'[r] = "hUnlock"
                /\ mutexHealthState.writer = r]_vars

\* C11 witness: a request to another route has been served after a write
\* stored 503, and the code is still 503.
C11_Witness ==
    /\ currentHealthState = 503
    /\ lastWrite.kind = "int"
    /\ \E r \in Requests : route[r] = "bench" /\ pc[r] = "respond" /\ status[r] = 200

\* ------------------------------------------------------- borrowed buffers
\* The requests that hold a buffer: between GetPooledBuffer and Close.
Holding == {r \in Requests : pc[r] \in {"dFill", "dServe", "dClose"}}

\* The /data requests whose handler has returned.
Returned == {r \in Requests : route[r] = "data" /\ pc[r] \in {"mwFinish", "respond"}}

\* The content of length L, written to a new buffer.
FreshContent(L) == Bytes(writeContent(NewBuffer, L))

\* C12: a /data request releases the buffer it acquired exactly once,
\* whichever way its handler returns (all bytes streamed, the attachment's
\* early return, the write to the client cut short): none while it holds
\* the buffer, one when the handler has returned, and when every request has
\* completed no live buffer is outside the pool.
C12_ReleasedExactlyOnce ==
    /\ \A r \in Holding : released[r] = 0 /\ content[r] \in DOMAIN buffers
    /\ \A r \in Returned : released[r] = 1
    /\ (\A r \in Requests : pc[r] = "idle") => DOMAIN buffers \subseteq bufferPool

\* C12 witness: a handler has returned after a write that was cut short,
\* and another after serving an attachment.
C12_Witness ==
    /\ \E r \in Returned :
          ~req[r].attachment /\ Len(out[r]) < ToInt(dataSize(req[r])) /\ released[r] = 1
    /\ \E r \in Returned : req[r].attachment /\ released[r] = 1

\* C13: no two requests hold the same buffer, a buffer a request holds is
\* not in the pool, every step that changes a buffer is a step of the
\* request holding it, and the release follows the serving of the response.
C13_ExclusiveOwnership ==
    /\ [](\A r1, r2 \in Holding : r1 # r2 => content[r1] # content[r2])
    /\ [](\A r \in Holding : content[r] \notin bufferPool)
    /\ [][\A a \in DOMAIN buffers \cap DOMAIN buffers' :
            buffers'[a] # buffers[a] =>
                \E r \in Holding : content[r] = a /\ pc'[r] # pc[r]]_vars
    /\ [][\A r \in Requests :
            released'[r] > released[r] => pc[r] = "dClose" /\ status[r] = 200]_vars

\* C13 witness: a request holds a recycled buffer while the request before
\* it, which released that buffer, has not yet left the server.
C13_Witness ==
    \E r1, r2 \in Requests :
        /\ r1 \in Holding /\ recycled[r1]
        /\ r2 \in Returned /\ content[r2] = content[r1]

\* Two requests hold buffers at once.
C13_TwoHolders == Cardinality(Holding) >= 2

\* C14: what fillContentPooled(L) hands the handler depends on L alone: it
\* is the content a new buffer gets for L, whether the buffer is new or
\* recycled and whatever it held before, so two requests with the same L
\* hold the same bytes.
C14_ContentDependsOnLength ==
    /\ \A r \in Requests :
          pc[r] = "dServe" =>
              Bytes(buffers[content[r]]) = FreshContent(ToInt(dataSize(req[r])))
    /\ \A r1, r2 \in Requests :
          (pc[r1] = "dServe" /\ pc[r2] = "dServe"
              /\ dataSize(req[r1]) = dataSize(req[r2]))
          => Bytes(buffers[content[r1]]) = Bytes(buffers[content[r2]])

\* C14 witness: a request holds its content in a recycled buffer whose
\* backing array still carries more bytes of the request before.
C14_Witness ==
    \E r \in Requests :
        /\ pc[r] = "dServe"
        /\ recycled[r]
        /\ Len(buffers[content[r]].arr) > buffers[content[r]].len

\* ------------------------------------------------------------- data size
\* C15 as stated: the length dataHandler passes to fillContentPooled is
\* non-negative, for every size parameter and every unit.
C15_FillLengthNonNegative == sizePc = "done" => ~IsNeg(size)

\* What holds: without a unit, and whenever the clamped size is below
\* 2^(63 - shift), the length is non-negative.
C15_NonNegativeBelowLimit ==
    (sizePc = "done"
        /\ \A i \in ParseInt(sizeReq.size).val :
              i = Width - 1 \/ i + UnitShift(sizeReq.unit) < Width - 1)
    => ~IsNeg(size)

\* ------------------------------------------------------- wrapped handlers
\* The requests inside metricsMiddleware.ServeHTTP that have incremented the
\* in-flight counter and not yet run onHandleRequestFinish.
Counted == {r \in Requests : pc[r] \notin {"idle", "mwStart", "respond"}}

\* The requests inside the wrapped handler.
InHandlerPcs == {"handler", "hLock", "hLockWait", "hWrite", "hUnlock", "hRead", "hRUnlock"}
InHandler == {r \in Requests : pc[r] \in InHandlerPcs}

\* Caller r's request has asked for the health state's lock; it holds it.
AwaitsLock(r) ==
    \/ pc[r] \in {"hLock", "hLockWait"}
    \/ pc[r] = "handler" /\ route[r] = "health" /\ req[r].method # "POST"
HoldsLock(r) == pc[r] \in {"hWrite", "hRead"}

\* C16: under fair scheduling every request that has been accepted is
\* answered and every read and write that asks for the lock gets it; a
\* request holds the lock only inside its handler and has run
\* onHandleRequestFinish when it is answered, so with every request answered
\* the mutex is free and the in-flight counter is 0.
C16_NoIndefiniteBlocking ==
    /\ \A r \in 1..LiveCallers :
          /\ (pc[r] # "idle") ~> (pc[r] = "idle")
          /\ AwaitsLock(r) ~> HoldsLock(r)
    /\ [](\A r \in Requests :
            pc[r] \in {"idle", "mwFinish", "respond"} =>
                (mutexHealthState.writer # r /\ r \notin mutexHealthState.readers))
    /\ []((\A r \in Requests : pc[r] = "idle") =>
            /\ mutexHealthState = [writer |-> 0, readers |-> {}]
            /\ concurrentRequestCount = 0)

\* C16 witness: a write has asked for the lock and waits for a reader
\* that is inside to leave.
C16_Witness ==
    \E w, r \in Requests :
        /\ pc[w] = "hLockWait"
        /\ pc[r] \in {"hRead", "hRUnlock"}
        /\ mutexHealthState.writer = w

\* C17 as stated: in every state total count >= in-flight count.
C17_TotalCoversInFlight == totalRequestCount >= concurrentRequestCount

\* C18: the in-flight counter is the number of requests between their
\* onHandleRequestStart and their onHandleRequestFinish; a request that
\* leaves the wrapped handler, by return or by panic, goes on to
\* onHandleRequestFinish, which takes one off the counter, so a request that
\* is answered has put the counter back and the counter is 0 when no request
\* is in the server.
C18_FinishRunsOnEveryExit ==
    /\ [](concurrentRequestCount = Cardinality(Counted))
    /\ []((\A r \in Requests : pc[r] \in {"idle", "respond"}) =>
            concurrentRequestCount = 0)
    /\ [][\A r \in Requests :
            /\ (r \in InHandler /\ pc'[r] \notin InHandlerPcs) => pc'[r] = "mwFinish"
            /\ (pc[r] = "mwFinish" /\ pc'[r] # "mwFinish") =>
                  /\ concurrentRequestCount' = concurrentRequestCount - 1
                  /\ pc'[r] = "respond"
            /\ pc'[r] = "respond" => pc[r] \in {"mwFinish", "respond"}]_vars

\* C18 witness: a request whose handler panicked has been through
\* onHandleRequestFinish and the in-flight counter is back at 0.
C18_Witness ==
    /\ concurrentRequestCount = 0
    /\ \E r \in Requests : pc[r] = "respond" /\ panicked[r] /\ count[r] >= 1

\* ------------------------------------------------------------ wrapHandler
\* The number of requests the server has accepted.
RECURSIVE SumIter(_)
SumIter(S) ==
    IF S = {} THEN 0
    ELSE LET r == CHOOSE x \in S : TRUE IN iter[r] + SumIter(S \ {r})

\* The requests that have entered ServeHTTP and not yet added to the total.
NotYetCounted == {r \in Requests : pc[r] \in {"mwStart", "mwTotal"}}

C19_ServedUncounted ==
    /\ ~metricsEnabled
    /\ \E r \in Requests : route[r] = "health" /\ pc[r] = "respond"

====
